---- MODULE Spec2Model ----
(***************************************************************************)
(* Model of internal/core/hls_source.go: the HLS source supervisor         *)
(* (hlsSource.run / runInner), its attempts (hlsSourceInstance.run,        *)
(* queueFill, segmentProcess, initVideoTrack) and the router callbacks.    *)
(* The supervisor and every attempt are goroutines; each action below is   *)
(* one step of one goroutine between two of its blocking points.  Time is  *)
(* abstract: a timer (time.After) fires through an environment action.     *)
(***************************************************************************)
EXTENDS Integers, Sequences, FiniteSets, TLC

\* ------------------------------------------------------------- bounds
MaxInst == 2          \* hlsSourceInstance objects that can exist at once
NumURIs == 2          \* distinct segment URIs the origin serves
StreamLen == 3        \* segments an origin with an ordered stream publishes
MaxPlaylistLen == 2   \* segments listed by one media playlist
MaxSegItems == 2      \* demuxer items (NextData results) of one segment
MaxPTS == 1           \* presentation timestamps are 0..MaxPTS
MaxNALUs == 2         \* NAL units of one payload

URINames == <<"a", "b", "c", "d", "e">>
URIs == {URINames[k] : k \in 1..NumURIs}
Slots == 1..MaxInst
PTSs == 0..MaxPTS

\* media playlists: the non-nil prefix of pl.Segments, as URI sequences
Playlists == UNION {[1..n -> URIs] : n \in 0..MaxPlaylistLen}

\* the place of a URI in the origin's stream of segments a, b, c, ...
URIIndex(u) == CHOOSE k \in 1..Len(URINames) : URINames[k] = u

\* the playlists of an origin that lists, in stream order, every segment it
\* has published so far
AscPlaylists == {SubSeq(URINames, 1, n) : n \in 0..StreamLen}

\* H.264 NAL unit types the extractor distinguishes (nalu[0] & 0x1F)
NALUTypes == {"sps", "pps", "aud", "idr"}
NALUSeqs == UNION {[1..n -> NALUTypes] : n \in 1..MaxNALUs}

\* elementary streams of a PMT: stream types, the PID of an entry is its index
PMTs == {<<"h264">>, <<"h264", "aac">>, <<"h264", "h264">>, <<"aac">>}

VARIABLES
    cancelled,   \* s.ctx is done (Close() or the supervisor's own ctxCancel)
    supPc,       \* where the goroutine hlsSource.run is
    pauseFired,  \* the retry-pause timer channel holds its tick
    cur,         \* si of the running runInner call (0: none)
    epoch,       \* parity of the number of newHLSSourceInstance calls
    inst,        \* the hlsSourceInstance objects and their run goroutines
    sourceReady  \* the router holds the source as ready

vars == <<cancelled, supPc, pauseFired, cur, epoch, inst, sourceReady>>

\* ------------------------------------------------------------- instances

\* the object newHLSSourceInstance returns, its goroutine at the top of run.
\* el, nread, videoInitialized, videoStartPTS and pts (the timestamp of the
\* payload a pacing wait holds back) are locals of segmentProcess.
\* readyCalls, readyOK and notReadyCalls count the router calls of the attempt
\* (OnSourceStaticSetReady, those that returned a stream,
\* OnSourceStaticSetNotReady); bornCancelled records that s.ctx was done when
\* the instance was created; prev is the URI handed to segmentProcess last;
\* out is outNALUs of the payload being handled and frames counts the calls
\* of onFrame; pmt is the list of elementary streams of the PMT handled last,
\* until the next dem.NextData(); refSet records that a timing reference was
\* established in the attempt, waited that the payload being handled was
\* held back by a pacing wait, polled that queueFill has run and neither a
\* segment was dequeued nor an idle wait expired since.
FreshInst ==
    [pc |-> "loop", closed |-> FALSE, urSet |-> FALSE, queue |-> <<>>, el |-> "",
     pmtDownloaded |-> FALSE, videoPID |-> 0, audioPID |-> 0,
     videoSPS |-> FALSE, videoPPS |-> FALSE, videoTrack |-> FALSE,
     videoEncoder |-> FALSE, stream |-> FALSE,
     nread |-> 0, videoInitialized |-> FALSE, videoStartPTS |-> 0,
     pts |-> 0, fired |-> FALSE, err |-> "none",
     readyCalls |-> 0, readyOK |-> 0, notReadyCalls |-> 0,
     bornCancelled |-> FALSE, prev |-> "", out |-> <<>>, frames |-> 0,
     pmt |-> <<>>, refSet |-> FALSE, waited |-> FALSE,
     polled |-> FALSE]

NoInst == [FreshInst EXCEPT !.pc = "none"]

\* an instance whose goroutine exists and has not delivered its result
Running(i) == inst[i].pc \notin {"none", "dead"}

FreeSlots == {i \in Slots : ~Running(i)}

Min(S) == CHOOSE x \in S : \A y \in S : x <= y

\* CtxDone for an instance context that is not derived from s.ctx
CtxDoneDetached(i) == inst[i].closed

\* si.ctx: context.WithCancel(s.ctx), cancelled by si.close() or with s.ctx
CtxDone(i) == cancelled \/ inst[i].closed

\* the locals of a segmentProcess call end with the call
SegLocals(r) ==
    [r EXCEPT !.el = "", !.nread = 0, !.videoInitialized = FALSE,
              !.videoStartPTS = 0, !.pts = 0, !.fired = FALSE, !.out = <<>>,
              !.waited = FALSE]

\* RunReturn with no deferred function: the router is never told
RunReturnSilent(r, e) ==
    [SegLocals(r) EXCEPT !.pc = "send", !.err = e, !.prev = "",
                         !.refSet = FALSE, !.polled = FALSE]

\* RunReturn with the notification left out of the cancellation returns
RunReturnNoDefer(r, e) ==
    [SegLocals(r) EXCEPT !.pc = "send", !.err = e, !.prev = "",
                         !.refSet = FALSE, !.polled = FALSE,
                         !.notReadyCalls = IF r.stream /\ e # "terminated"
                                           THEN @ + 1 ELSE @]

\* lines 80-85, 517: run returns e; its deferred function tells the router
\* the source is not ready if a stream was obtained; then the goroutine
\* blocks in done <- e
RunReturn(r, e) ==
    [SegLocals(r) EXCEPT !.pc = "send", !.err = e, !.prev = "",
                         !.refSet = FALSE, !.polled = FALSE,
                         !.notReadyCalls = IF r.stream THEN @ + 1 ELSE @]

\* the goroutine has ended and runInner has dropped si: what stays of the
\* attempt is what the router saw of it
Dead(r) ==
    [NoInst EXCEPT !.pc = "dead", !.stream = r.stream, !.err = r.err,
                   !.bornCancelled = r.bornCancelled,
                   !.readyCalls = r.readyCalls, !.readyOK = r.readyOK,
                   !.notReadyCalls = r.notReadyCalls, !.frames = r.frames]

\* lines 83 and 422: what the calls the step from r to r2 makes leave the
\* router with: OnSourceStaticSetNotReady clears the ready state, an
\* OnSourceStaticSetReady that returns a stream sets it
RouterAfter(r, r2) ==
    IF r2.notReadyCalls > r.notReadyCalls THEN FALSE
    ELSE IF r2.readyOK > r.readyOK THEN TRUE
    ELSE sourceReady

Set(i, r) ==
    /\ inst' = [inst EXCEPT ![i] = r]
    /\ sourceReady' = RouterAfter(inst[i], r)

Sup == UNCHANGED <<cancelled, supPc, pauseFired, cur, epoch>>

\* ------------------------------------------------------------- segment queue

\* QueueContainsURI looking at the newest entry only
QueueContainsLast(q, ur) == Len(q) > 0 /\ q[Len(q)] = ur

\* lines 140-147
QueueContainsURI(q, ur) == \E k \in 1..Len(q) : q[k] = ur

\* lines 127-135: the loop over pl.Segments
RECURSIVE QueueAppend(_, _)
QueueAppend(q, pl) ==
    IF pl = <<>> THEN q
    ELSE QueueAppend(IF QueueContainsURI(q, Head(pl)) THEN q
                     ELSE Append(q, Head(pl)),
                     Tail(pl))

\* the errors a playlist download can end with
PlaylistErrs(urSet) ==
    IF urSet THEN {"fetch", "invalid playlist"}
    ELSE {"fetch", "invalid playlist", "no variants found"}

\* run, lines 88-93: refill when the queue holds at most one entry; the
\* origin answers with an error or with a playlist of P
AttFillFrom(i, P) ==
    /\ inst[i].pc = "loop"
    /\ LET r == inst[i] IN
       IF Len(r.queue) <= 1
       THEN \/ \E e \in PlaylistErrs(r.urSet) :
                 Set(i, RunReturn([r EXCEPT !.urSet = TRUE], e))
            \/ /\ ~CtxDone(i)
               /\ \E pl \in P :
                    Set(i, [r EXCEPT !.urSet = TRUE,
                                     !.queue = QueueAppend(r.queue, pl),
                                     !.polled = TRUE,
                                     !.pc = "check"])
       ELSE Set(i, [r EXCEPT !.pc = "check"])
    /\ Sup

AttFill(i) == AttFillFrom(i, Playlists)

\* AttCheck going back to the top of the loop on an empty queue, with no
\* idle wait
AttCheckNoIdle(i) ==
    /\ inst[i].pc = "check"
    /\ LET r == inst[i] IN
       IF Len(r.queue) = 0
       THEN Set(i, [r EXCEPT !.pc = "loop"])
       ELSE Set(i, [r EXCEPT !.pc = "seg", !.el = Head(r.queue),
                             !.prev = Head(r.queue), !.polled = FALSE,
                             !.queue = Tail(r.queue)])
    /\ Sup

\* run, lines 95-107: idle wait on an empty queue, else dequeue the oldest
AttCheck(i) ==
    /\ inst[i].pc = "check"
    /\ LET r == inst[i] IN
       IF Len(r.queue) = 0
       THEN Set(i, [r EXCEPT !.pc = "idle", !.fired = FALSE])
       ELSE Set(i, [r EXCEPT !.pc = "seg", !.el = Head(r.queue),
                             !.prev = Head(r.queue), !.polled = FALSE,
                             !.queue = Tail(r.queue)])
    /\ Sup

\* time.After(hlsSourcePauseWhenEmpty) delivers its tick
IdleTimerFire(i) ==
    /\ inst[i].pc = "idle"
    /\ ~inst[i].fired
    /\ Set(i, [inst[i] EXCEPT !.fired = TRUE])
    /\ Sup

\* the timer branch of the idle select taken without the tick
AttIdleNoWait(i) ==
    /\ inst[i].pc = "idle"
    /\ Set(i, [inst[i] EXCEPT !.pc = "loop", !.fired = FALSE,
                              !.polled = FALSE])
    /\ Sup

\* select, line 99
AttIdleTimer(i) ==
    /\ inst[i].pc = "idle"
    /\ inst[i].fired
    /\ Set(i, [inst[i] EXCEPT !.pc = "loop", !.fired = FALSE,
                              !.polled = FALSE])
    /\ Sup

\* the idle wait as a plain sleep, with no case for si.ctx.Done()
AttIdleSleepOnly(i) ==
    /\ FALSE
    /\ Set(i, inst[i])
    /\ Sup

\* select, lines 100-101
AttIdleCancel(i) ==
    /\ inst[i].pc = "idle"
    /\ CtxDone(i)
    /\ Set(i, RunReturn(inst[i], "terminated"))
    /\ Sup

\* ------------------------------------------------------------- segmentProcess

\* AttSegGet with the PMT search run on every segment, as if pmtDownloaded
\* were a local of segmentProcess
AttSegGetRedetect(i) ==
    /\ inst[i].pc = "seg"
    /\ LET r == inst[i] IN
       \/ \E e \in {"malformed reference", "fetch"} : Set(i, RunReturn(r, e))
       \/ /\ ~CtxDone(i)
          /\ Set(i, [r EXCEPT !.el = "", !.nread = 0,
                              !.videoInitialized = FALSE, !.videoStartPTS = 0,
                              !.pmtDownloaded = FALSE, !.pc = "pmt"])
    /\ Sup

\* lines 233-256: resolve the segment URL and GET it under si.ctx; the URI
\* el is not used after that; the PMT search is entered only if no PMT was
\* found before
AttSegGet(i) ==
    /\ inst[i].pc = "seg"
    /\ LET r == inst[i] IN
       \/ \E e \in {"malformed reference", "fetch"} : Set(i, RunReturn(r, e))
       \/ /\ ~CtxDone(i)
          /\ Set(i, [r EXCEPT !.el = "", !.nread = 0,
                              !.videoInitialized = FALSE, !.videoStartPTS = 0,
                              !.pc = IF r.pmtDownloaded THEN "data" ELSE "pmt"])
    /\ Sup

\* BindPMT with the audio case of lines 282-288 in force
RECURSIVE BindPMTAudio(_, _, _)
BindPMTAudio(r, es, k) ==
    IF k > Len(es) THEN [r |-> r, ok |-> TRUE]
    ELSE IF es[k] = "h264"
         THEN IF r.videoPID # 0 THEN [r |-> r, ok |-> FALSE]
              ELSE BindPMTAudio([r EXCEPT !.videoPID = k], es, k + 1)
         ELSE IF r.audioPID # 0 THEN [r |-> r, ok |-> FALSE]
              ELSE BindPMTAudio([r EXCEPT !.audioPID = k], es, k + 1)

\* lines 272-290: bind the PIDs of the PMT's elementary streams, entry k on
\* (the audio case is commented out in the source); ok is FALSE on a second
\* H.264 entry
RECURSIVE BindPMT(_, _, _)
BindPMT(r, es, k) ==
    IF k > Len(es) THEN [r |-> r, ok |-> TRUE]
    ELSE IF es[k] = "h264"
         THEN IF r.videoPID # 0 THEN [r |-> r, ok |-> FALSE]
              ELSE BindPMT([r EXCEPT !.videoPID = k], es, k + 1)
         ELSE BindPMT(r, es, k + 1)

\* lines 257-293: one dem.NextData() of the PMT search
AttPMT(i) ==
    /\ inst[i].pc = "pmt"
    /\ LET r == inst[i] IN
       \/ Set(i, [SegLocals(r) EXCEPT !.pc = "loop"])     \* ErrNoMorePackets
       \/ Set(i, RunReturn(r, "demux"))
       \/ /\ r.nread < MaxSegItems
          /\ \/ Set(i, [r EXCEPT !.nread = @ + 1])        \* data.PMT == nil
             \/ \E es \in PMTs :
                  LET b == BindPMT([r EXCEPT !.pmtDownloaded = TRUE,
                                             !.pmt = es,
                                             !.nread = @ + 1], es, 1) IN
                  IF b.ok THEN Set(i, [b.r EXCEPT !.pc = "data"])
                  ELSE Set(i, [RunReturn(b.r,
                           "multiple video/audio tracks are not supported")
                               EXCEPT !.pmt = es])
    /\ Sup

\* lines 323-328: the timing reference of this segmentProcess call
TimingRef(r, pts) ==
    IF ~r.videoInitialized
    THEN [r EXCEPT !.videoInitialized = TRUE, !.videoStartPTS = pts,
                   !.refSet = TRUE]
    ELSE r

\* lines 299-339: one dem.NextData() of the payload loop, up to the pacing
\* decision; now is time.Since(videoStartRTC)
AttData(i) ==
    /\ inst[i].pc = "data"
    /\ LET r == [inst[i] EXCEPT !.pmt = <<>>] IN
       \/ Set(i, [SegLocals(r) EXCEPT !.pc = "loop"])     \* ErrNoMorePackets
       \/ Set(i, RunReturn(r, "demux"))
       \/ /\ r.nread < MaxSegItems
          /\ \/ Set(i, [r EXCEPT !.nread = @ + 1])        \* data.PES == nil
             \/ \E pid \in 1..2 :
                  IF r.videoPID # 0 /\ pid = r.videoPID
                  THEN \/ Set(i, RunReturn(r, "annexb"))
                       \/ Set(i, RunReturn(r, "PTS is missing"))
                       \/ \E pts \in PTSs, now \in PTSs :
                            LET t == [TimingRef(r, pts) EXCEPT
                                         !.nread = @ + 1, !.fired = FALSE] IN
                            IF pts - t.videoStartPTS > now
                            THEN Set(i, [t EXCEPT !.pc = "pace", !.pts = pts])
                            ELSE Set(i, [t EXCEPT !.pc = "nal"])
                  ELSE Set(i, [r EXCEPT !.nread = @ + 1]) \* audioPID is nil
    /\ Sup

\* time.After(pts - videoStartPTS - now) delivers its tick
PaceTimerFire(i) ==
    /\ inst[i].pc = "pace"
    /\ ~inst[i].fired
    /\ Set(i, [inst[i] EXCEPT !.fired = TRUE])
    /\ Sup

\* the pacing wait as a plain sleep, with no case for si.ctx.Done()
AttPaceSleepOnly(i) ==
    /\ FALSE
    /\ Set(i, inst[i])
    /\ Sup

\* select, lines 335-336
AttPaceCancel(i) ==
    /\ inst[i].pc = "pace"
    /\ CtxDone(i)
    /\ Set(i, RunReturn(inst[i], "terminated"))
    /\ Sup

\* select, line 337
AttPaceTimer(i) ==
    /\ inst[i].pc = "pace"
    /\ inst[i].fired
    /\ Set(i, [inst[i] EXCEPT !.pc = "nal", !.pts = 0, !.fired = FALSE,
                              !.waited = TRUE])
    /\ Sup

\* lines 414-438; o is what the libraries answer: "trackErr" (NewTrackH264
\* fails), "readyErr" (the router's res.Err is set), "ok".  On "readyErr"
\* line 429 returns err, the nil error of NewTrackH264.
InitVideoTrack(r, o) ==
    IF o = "trackErr" THEN [r |-> r, err |-> "track"]
    ELSE LET r1 == [r EXCEPT !.videoTrack = TRUE, !.videoEncoder = TRUE,
                             !.readyCalls = @ + 1] IN
         IF o = "readyErr" THEN [r |-> r1, err |-> "none"]
         ELSE [r |-> [r1 EXCEPT !.stream = TRUE, !.readyOK = @ + 1],
               err |-> "none"]

\* OnSPS without the test of line 348: every SPS is recorded anew
OnSPSAlways(r, o) ==
    LET r1 == [r EXCEPT !.videoSPS = TRUE] IN
    IF r1.videoPPS THEN InitVideoTrack(r1, o)
    ELSE [r |-> r1, err |-> "none"]

\* lines 347-360
OnSPS(r, o) ==
    IF ~r.videoSPS
    THEN LET r1 == [r EXCEPT !.videoSPS = TRUE] IN
         IF r1.videoPPS THEN InitVideoTrack(r1, o)
         ELSE [r |-> r1, err |-> "none"]
    ELSE [r |-> r, err |-> "none"]

\* lines 362-375
OnPPS(r, o) ==
    IF ~r.videoPPS
    THEN LET r1 == [r EXCEPT !.videoPPS = TRUE] IN
         IF r1.videoSPS THEN InitVideoTrack(r1, o)
         ELSE [r |-> r1, err |-> "none"]
    ELSE [r |-> r, err |-> "none"]

\* Classify without the case of lines 377-380: an access unit delimiter is
\* handled like any other NAL unit
RECURSIVE ClassifyKeepAUD(_, _, _, _)
ClassifyKeepAUD(r, nalus, out, o) ==
    IF nalus = <<>> THEN [r |-> r, out |-> out, err |-> "none"]
    ELSE LET typ == Head(nalus) IN
         IF typ \in {"sps", "pps"}
         THEN LET s == IF typ = "sps" THEN OnSPS(r, o) ELSE OnPPS(r, o) IN
              IF s.err # "none" THEN [r |-> s.r, out |-> out, err |-> s.err]
              ELSE ClassifyKeepAUD(s.r, Tail(nalus), out, o)
         ELSE IF ~r.videoEncoder THEN ClassifyKeepAUD(r, Tail(nalus), out, o)
         ELSE ClassifyKeepAUD(r, Tail(nalus), Append(out, typ), o)

\* lines 341-387: the NAL units of one payload, in order; out is outNALUs
RECURSIVE Classify(_, _, _, _)
Classify(r, nalus, out, o) ==
    IF nalus = <<>> THEN [r |-> r, out |-> out, err |-> "none"]
    ELSE LET typ == Head(nalus) IN
         IF typ \in {"sps", "pps"}
         THEN LET s == IF typ = "sps" THEN OnSPS(r, o) ELSE OnPPS(r, o) IN
              IF s.err # "none" THEN [r |-> s.r, out |-> out, err |-> s.err]
              ELSE Classify(s.r, Tail(nalus), out, o)
         ELSE IF typ = "aud" THEN Classify(r, Tail(nalus), out, o)
         ELSE IF ~r.videoEncoder THEN Classify(r, Tail(nalus), out, o)
         ELSE Classify(r, Tail(nalus), Append(out, typ), o)

\* what initVideoTrack can be answered while ns is classified: the libraries
\* are asked only if ns holds the second of SPS/PPS the attempt sees
InitAnswers(r, ns) ==
    IF Classify(r, ns, <<>>, "ok").r.readyCalls # r.readyCalls
    THEN {"trackErr", "readyErr", "ok"}
    ELSE {"ok"}

\* lines 398-401: the packets are printed; the call of si.onFrame is
\* commented out (and onFrame, lines 440-443, has an empty body), so frames
\* stays as it is
Forward(r, out) == r

\* Encode without the test of lines 389-391: the encoder is called on an
\* empty outNALUs as well
EncodeAlways(r, out, encOK) ==
    IF encOK
    THEN [r EXCEPT !.pc = "data", !.out = <<>>, !.waited = FALSE]
    ELSE RunReturn(r, "ERR while encoding H264")

\* lines 389-401: nothing to forward, or videoEncoder.Encode, its error, and
\* what is done with the packets
Encode(r, out, encOK) ==
    IF Len(out) = 0
    THEN [r EXCEPT !.pc = "data", !.out = <<>>, !.waited = FALSE]
    ELSE IF encOK
         THEN [Forward(r, out) EXCEPT !.pc = "data", !.out = <<>>,
                                      !.waited = FALSE]
         ELSE RunReturn(r, "ERR while encoding H264")

\* lines 341-387: classify the NAL units ns of the payload (decoded at line
\* 313, first read here)
AttNal(i) ==
    /\ inst[i].pc = "nal"
    /\ LET r == inst[i] IN
       \E ns \in NALUSeqs : \E o \in InitAnswers(r, ns) :
         LET c == Classify(r, ns, <<>>, o) IN
         IF c.err # "none" THEN Set(i, RunReturn(c.r, c.err))
         ELSE Set(i, [c.r EXCEPT !.pc = "enc", !.out = c.out])
    /\ Sup

\* lines 389-401: the output of the payload is encoded and handled
AttEnc(i) ==
    /\ inst[i].pc = "enc"
    /\ LET r == inst[i] IN
       \E encOK \in BOOLEAN : Set(i, Encode(r, r.out, encOK))
    /\ Sup

\* ------------------------------------------------------------- supervisor

Att == UNCHANGED <<inst, sourceReady>>

\* lines 513-518: newHLSSourceInstance and the goroutine running si.run
SupRunInner ==
    /\ supPc = "top"
    /\ FreeSlots # {}
    /\ LET i == Min(FreeSlots) IN
       /\ cur' = i
       /\ inst' = [inst EXCEPT ![i] =
                       [FreshInst EXCEPT !.bornCancelled = cancelled]]
    /\ epoch' = 1 - epoch
    /\ supPc' = "select"
    /\ UNCHANGED <<cancelled, pauseFired, sourceReady>>

\* the attempt is blocked in done <- err
ResultReady(i) == inst[i].pc = "send"

\* runInner returning true without waiting for the attempt's result
SupInnerNoWait ==
    /\ supPc = "select"
    /\ supPc' = "pause"
    /\ pauseFired' = FALSE
    /\ UNCHANGED <<cancelled, cur, epoch, inst, sourceReady>>

\* runInner returning false on the attempt's result: the error ends run
SupInnerDoneFatal ==
    /\ supPc = "select"
    /\ inst[cur].pc = "send"
    /\ inst' = [inst EXCEPT ![cur] = Dead(@)]
    /\ supPc' = "exit"
    /\ UNCHANGED <<cancelled, pauseFired, cur, epoch, sourceReady>>

\* select, lines 521-523: the result arrives, runInner returns true and run
\* starts the retry pause
SupInnerDone ==
    /\ supPc = "select"
    /\ ResultReady(cur)
    /\ inst' = [inst EXCEPT ![cur] = Dead(@)]
    /\ supPc' = "pause"
    /\ pauseFired' = FALSE
    /\ UNCHANGED <<cancelled, cur, epoch, sourceReady>>

\* the cancellation branch returning false right after si.close(), without
\* the receive of line 527
SupInnerCancelNoRecv ==
    /\ supPc = "select"
    /\ cancelled
    /\ inst' = [inst EXCEPT ![cur].closed = TRUE]
    /\ supPc' = "exit"
    /\ UNCHANGED <<cancelled, pauseFired, cur, epoch, sourceReady>>

\* select, lines 525-526: si.close()
SupInnerCancel ==
    /\ supPc = "select"
    /\ cancelled
    /\ inst' = [inst EXCEPT ![cur].closed = TRUE]
    /\ supPc' = "closing"
    /\ UNCHANGED <<cancelled, pauseFired, cur, epoch, sourceReady>>

\* lines 527-528 and 498-499: <-done, runInner returns false, break outer
SupClosingRecv ==
    /\ supPc = "closing"
    /\ ResultReady(cur)
    /\ inst' = [inst EXCEPT ![cur] = Dead(@)]
    /\ supPc' = "exit"
    /\ UNCHANGED <<cancelled, pauseFired, cur, epoch, sourceReady>>

\* time.After(hlsSourceRetryPause) delivers its tick
PauseTimerFire ==
    /\ supPc = "pause"
    /\ ~pauseFired
    /\ pauseFired' = TRUE
    /\ UNCHANGED <<cancelled, supPc, cur, epoch>>
    /\ Att

\* select, line 503: next iteration of the outer loop
SupPauseTimer ==
    /\ supPc = "pause"
    /\ pauseFired
    /\ supPc' = "top"
    /\ pauseFired' = FALSE
    /\ UNCHANGED <<cancelled, cur, epoch>>
    /\ Att

\* select, lines 504-505: break outer
SupPauseCancel ==
    /\ supPc = "pause"
    /\ cancelled
    /\ supPc' = "exit"
    /\ pauseFired' = FALSE
    /\ UNCHANGED <<cancelled, cur, epoch>>
    /\ Att

\* lines 509 and 493: s.ctxCancel(), then the deferred s.wg.Done()
SupFinish ==
    /\ supPc = "exit"
    /\ cancelled' = TRUE
    /\ supPc' = "done"
    /\ UNCHANGED <<pauseFired, cur, epoch>>
    /\ Att

\* lines 483-486, called by the owner of the source at any time
Close ==
    /\ ~cancelled
    /\ cancelled' = TRUE
    /\ UNCHANGED <<supPc, pauseFired, cur, epoch>>
    /\ Att

\* ------------------------------------------------------------- specification

\* newHLSSource, lines 460-481: the context is live and run has just started
Init ==
    /\ cancelled = FALSE
    /\ supPc = "top"
    /\ pauseFired = FALSE
    /\ cur = 0
    /\ epoch = 0
    /\ inst = [i \in Slots |-> NoInst]
    /\ sourceReady = FALSE

\* the steps of an attempt other than the refill
AttRest(i) ==
    \/ AttCheck(i)
    \/ AttIdleTimer(i)
    \/ AttIdleCancel(i)
    \/ AttSegGet(i)
    \/ AttPMT(i)
    \/ AttData(i)
    \/ AttPaceCancel(i)
    \/ AttPaceTimer(i)
    \/ AttNal(i)
    \/ AttEnc(i)

AttStep(i) ==
    \/ AttFill(i)
    \/ AttRest(i)

\* the branches of the supervisor's selects that observe s.ctx.Done()
SupCancelStep ==
    \/ SupInnerCancel
    \/ SupPauseCancel

SupStep ==
    \/ SupRunInner
    \/ SupInnerDone
    \/ SupClosingRecv
    \/ SupPauseTimer
    \/ SupFinish
    \/ SupCancelStep

TimerFire ==
    \/ PauseTimerFire
    \/ \E i \in Slots : IdleTimerFire(i) \/ PaceTimerFire(i)

Next ==
    \/ \E i \in Slots : AttStep(i)
    \/ SupStep
    \/ TimerFire
    \/ Close

Spec == Init /\ [][Next]_vars

\* Scheduling: a goroutine that can take a step eventually takes one (WF);
\* a select picks uniformly among its ready cases, so a cancellation case
\* that is ready again and again is eventually picked (SF).  No timer is
\* required to fire and Close() is not required to be called.
Fairness ==
    /\ \A i \in Slots : WF_vars(AttStep(i))
    /\ WF_vars(SupStep)
    /\ SF_vars(SupCancelStep)

FairSpec == Spec /\ Fairness

\* FairSpec with the retry-pause timer required to fire
LiveSpec == FairSpec /\ WF_vars(PauseTimerFire)

\* the behaviours in which no timer fires once s.ctx is done
NextQuiet ==
    \/ \E i \in Slots : AttStep(i)
    \/ SupStep
    \/ (~cancelled /\ TimerFire)
    \/ Close

QuietSpec == Init /\ [][NextQuiet]_vars /\ Fairness

\* the behaviours against an origin whose playlists list the stream from its
\* first segment on, in order
NextOrdered ==
    \/ \E i \in Slots : AttFillFrom(i, AscPlaylists) \/ AttRest(i)
    \/ SupStep
    \/ TimerFire
    \/ Close

OrderedSpec == Init /\ [][NextOrdered]_vars

\* ------------------------------------------------------------- properties

\* C1: in every attempt the router's become-ready operation is called at most
\* once, its not-ready operation at most once, and not-ready only after a
\* become-ready call of the same attempt that returned a stream.
C1_ReadinessCalls ==
    \A i \in Slots :
        /\ inst[i].readyCalls <= 1
        /\ inst[i].notReadyCalls <= 1
        /\ inst[i].notReadyCalls > 0 => inst[i].readyOK > 0

\* an attempt that became ready once and has told the router it is not
C1_Witness ==
    \E i \in Slots :
        /\ inst[i].readyCalls = 1
        /\ inst[i].readyOK = 1
        /\ inst[i].notReadyCalls = 1

\* C2: when an attempt that became live (become-ready succeeded, stream held)
\* has returned from run, for whatever reason, the not-ready notification has
\* been issued exactly once by the time its result is handed to the supervisor.
C2_NotReadyOnExit ==
    \A i \in Slots :
        (inst[i].pc \in {"send", "dead"} /\ inst[i].readyOK > 0 /\ inst[i].stream)
            => inst[i].notReadyCalls = 1

\* a live attempt cancelled in a wait, its result not yet received
C2_Witness ==
    \E i \in Slots :
        /\ inst[i].pc = "send"
        /\ inst[i].err = "terminated"
        /\ inst[i].stream
        /\ inst[i].notReadyCalls = 1

\* C3: when the router's become-ready call returns an error the attempt ends
\* with that error: once a become-ready call has failed, run has returned.
C3_ReadyErrorIsFatal ==
    \A i \in Slots :
        inst[i].readyCalls > inst[i].readyOK => inst[i].pc \in {"send", "dead"}

\* C4: once the supervisor task has returned (wg.Done executed) no attempt is
\* still executing.
C4_NoAttemptOutlivesRun ==
    supPc = "done" => \A i \in Slots : ~Running(i)

\* the supervisor has returned after closing a live attempt
C4_Witness ==
    /\ supPc = "done"
    /\ cur # 0
    /\ inst[cur].pc = "dead"
    /\ inst[cur].readyOK = 1

\* C5: after the source context is cancelled the running attempt eventually
\* terminates and the supervisor task eventually returns, wherever the
\* attempt and the supervisor are.
C5_CloseTerminates ==
    cancelled ~> (supPc = "done" /\ \A i \in Slots : ~Running(i))

\* the supervisor has returned after a live attempt was cancelled in a fetch
C5_Witness ==
    /\ supPc = "done"
    /\ cur # 0
    /\ inst[cur].pc = "dead"
    /\ inst[cur].err = "fetch"
    /\ inst[cur].stream

\* C6: at most one attempt of the source executes at a time, and when the
\* supervisor is about to create an attempt none is executing.
C6_Sequential ==
    /\ Cardinality({i \in Slots : Running(i)}) <= 1
    /\ supPc = "top" => \A i \in Slots : ~Running(i)

\* a second attempt is running, alone
C6_Witness ==
    /\ supPc = "select"
    /\ epoch = 0
    /\ Running(cur)
    /\ inst[cur].pc = "data"

\* C7: the supervisor loop is left only when the source context is done, and
\* while it is not done an attempt that returned an error is followed, after
\* the retry pause, by a new attempt.
C7_RetryUntilClosed ==
    /\ [](supPc = "exit" => cancelled)
    /\ \A g \in {0, 1} :
         (supPc = "select" /\ inst[cur].pc = "send" /\ ~cancelled /\ epoch = g)
             ~> (cancelled \/ epoch # g)

\* a second attempt has been started on a source that is not closed
C7_Witness ==
    /\ supPc = "select"
    /\ epoch = 0
    /\ ~cancelled
    /\ inst[cur].pc = "loop"
    /\ inst[cur].queue = <<>>

\* C8 as claimed: once the source context is done the supervisor loop makes no
\* further attempt: after the first, no hlsSourceInstance is created while the
\* context is done.
C8_NoInstanceAfterCancel == [][(cancelled /\ cur # 0) => (epoch' = epoch)]_vars

\* C8 as amended: once the supervisor has taken a cancellation branch no
\* instance is created, and an instance created while the source context is
\* done fails its first playlist download: it queues nothing, fetches no
\* segment and never calls the router.
C8_CancelledInstanceInert ==
    /\ [][(supPc \in {"closing", "exit", "done"}) => (epoch' = epoch)]_vars
    /\ [](\A i \in Slots :
            inst[i].bornCancelled =>
                /\ inst[i].pc \in {"loop", "send", "dead"}
                /\ inst[i].queue = <<>>
                /\ inst[i].readyCalls = 0
                /\ inst[i].pc # "loop" => inst[i].err \in PlaylistErrs(FALSE))

\* an instance created after the cancellation has returned its error
C8_Witness ==
    \E i \in Slots : inst[i].bornCancelled /\ inst[i].pc = "send"

\* C9: when the source is cancelled while the attempt is blocked in its idle
\* wait or pacing wait, and no timer fires any more, the attempt returns the
\* cancellation error and the supervisor returns: neither the wait nor the
\* retry pause has to expire.
C9_CancelSkipsWaits ==
    \A i \in Slots :
        (cancelled /\ inst[i].pc \in {"idle", "pace"} /\ ~inst[i].fired)
            ~> (supPc = "done" /\ inst[i].pc = "dead"
                               /\ inst[i].err = "terminated")

\* the supervisor has returned after its attempt was cancelled in a wait
C9_Witness ==
    /\ supPc = "done"
    /\ ~pauseFired
    /\ cur # 0
    /\ inst[cur].pc = "dead"
    /\ inst[cur].err = "terminated"

NoDup(q) == \A j, k \in 1..Len(q) : j # k => q[j] # q[k]

\* the URIs of pl that are neither in q nor earlier in pl, in playlist order
RECURSIVE NewURIs(_, _)
NewURIs(q, pl) ==
    IF pl = <<>> THEN <<>>
    ELSE LET front == SubSeq(pl, 1, Len(pl) - 1)
             last == pl[Len(pl)]
             seen == {q[k] : k \in 1..Len(q)} \cup {front[k] : k \in 1..Len(front)}
         IN IF last \in seen THEN NewURIs(q, front)
            ELSE Append(NewURIs(q, front), last)

\* C10: the segment queue never holds a URI twice; a refill appends the newly
\* seen URIs of some playlist, in playlist order, behind the entries already
\* queued; a dequeue removes the oldest entry; nothing else changes the queue
\* of a running attempt; refills offering [a,b] then [a,c] leave [a,b,c].
C10_QueueDedupFIFO ==
    /\ [](\A i \in Slots : NoDup(inst[i].queue))
    /\ [](QueueAppend(QueueAppend(<<>>, <<"a", "b">>), <<"a", "c">>)
            = <<"a", "b", "c">>)
    /\ [][\A i \in Slots :
            LET q == inst[i].queue
                pc == inst[i].pc
            IN  /\ (pc = "loop" /\ inst'[i].pc = "check") =>
                     \E pl \in Playlists :
                        inst'[i].queue = q \o NewURIs(q, pl)
                /\ (pc = "check" /\ inst'[i].pc = "seg") =>
                     /\ inst'[i].el = Head(q)
                     /\ inst'[i].queue = Tail(q)
                /\ (Running(i) /\ pc \notin {"loop", "check"}
                      /\ inst'[i].pc \notin {"loop", "dead"}) =>
                     inst'[i].queue = q]_vars

\* a refill has appended behind an entry that was already queued
C10_Witness ==
    \E i \in Slots :
        /\ inst[i].pc = "check"
        /\ inst[i].pmtDownloaded
        /\ inst[i].queue = <<"b", "a">>

\* C11: against an origin whose playlists list the stream in order, a segment is
\* never handed to segmentProcess after a segment that follows it in the
\* stream has been: each dequeued URI is not before the one dequeued last.
C11_PlaylistOrder ==
    [][\A i \in Slots :
         (inst[i].pc = "check" /\ inst'[i].pc = "seg" /\ inst[i].prev # "")
            => URIIndex(inst'[i].el) >= URIIndex(inst[i].prev)]_vars

\* C12: a payload handled while the source is live (a stream was obtained)
\* whose output NAL units are not empty and are encoded is handed to the
\* router through onFrame.
C12_FramesForwarded ==
    [][\A i \in Slots :
         (/\ inst[i].pc = "enc" /\ inst'[i].pc = "data"
          /\ inst[i].stream /\ inst[i].out # <<>>)
            => inst'[i].frames = inst[i].frames + 1]_vars

MultipleTracks == "multiple video/audio tracks are not supported"

\* C13: a PMT with two H.264 streams ends the attempt with the
\* multiple-tracks error; a PMT with one H.264 and one AAC stream binds the
\* video PID to the PID of the H.264 stream and raises no error; the audio
\* PID is bound in no state.
C13_PIDBinding ==
    /\ \A i \in Slots :
         LET r == inst[i] IN
         /\ r.audioPID = 0
         /\ r.pmt = <<"h264", "h264">>
               => r.pc = "send" /\ r.err = MultipleTracks
         /\ r.pmt = <<"h264", "aac">>
               => r.pc = "data" /\ r.videoPID = 1 /\ r.err = "none"
         /\ r.pc = "send" /\ r.err = MultipleTracks
               => r.pmt = <<"h264", "h264">>
    /\ BindPMT(FreshInst, <<"aac", "h264">>, 1) =
          [r |-> [FreshInst EXCEPT !.videoPID = 2], ok |-> TRUE]

\* the PMT search has ended on a PMT listing H.264 and AAC
C13_Witness ==
    \E i \in Slots :
      /\ inst[i].pmt = <<"h264", "aac">>
      /\ inst[i].pc = "data"
      /\ inst[i].videoPID = 1

\* the payload of the claim's example, and what handling it leaves behind
C14_Example ==
    Classify(FreshInst, <<"aud", "sps", "pps", "idr", "aud", "sps", "slice">>,
             <<>>, "ok")

\* C14: SPS, PPS and access unit delimiters never reach the output; any other
\* NAL unit is put in the output, in order, only if the encoder existed when
\* it was classified, and is dropped otherwise.  For AUD, SPS, PPS, IDR, AUD,
\* SPS, slice the track is initialized at the PPS, the second SPS changes
\* nothing and IDR and slice are the output.
C14_NALFilter ==
    /\ \A i \in Slots :
         LET r == inst[i] IN
         r.pc = "enc" =>
            /\ \A k \in 1..Len(r.out) : r.out[k] \notin {"sps", "pps", "aud"}
            /\ r.out # <<>> => r.videoEncoder
    /\ C14_Example.out = <<"idr", "slice">>
    /\ C14_Example.err = "none"
    /\ C14_Example.r = Classify(FreshInst, <<"sps", "pps">>, <<>>, "ok").r
    /\ C14_Example.r.readyCalls = 1
    /\ ~Classify(FreshInst, <<"aud", "sps">>, <<>>, "ok").r.videoEncoder
    /\ Classify(FreshInst, <<"idr", "sps", "slice", "pps">>, <<>>, "ok").out
          = <<>>
    /\ Classify(C14_Example.r, <<"slice", "aud", "idr">>, <<>>, "ok").out
          = <<"slice", "idr">>

\* a payload has been classified with the encoder in place and an IDR is
\* its output
C14_Witness ==
    \E i \in Slots :
      /\ inst[i].pc = "enc"
      /\ inst[i].videoEncoder
      /\ inst[i].out = <<"idr">>

\* C15: at the idle wait, the pacing wait, the retry pause and the wait for
\* the attempt's result, the normal-wakeup branch is never taken when the
\* cancellation signal is set and the timer or result is ready as well.
C15_CancelWins ==
    [][/\ \A i \in Slots :
            /\ (inst[i].pc = "idle" /\ inst[i].fired /\ CtxDone(i))
                  => inst'[i].pc # "loop"
            /\ (inst[i].pc = "pace" /\ inst[i].fired /\ CtxDone(i))
                  => inst'[i].pc # "nal"
       /\ (supPc = "pause" /\ pauseFired /\ cancelled) => supPc' # "top"
       /\ (supPc = "select" /\ ResultReady(cur) /\ cancelled)
             => supPc' # "pause"]_vars

\* C15 as amended: each select takes its normal branch only if the timer has
\* ticked or the result is there, and its cancellation branch only if the
\* context is done; so cancellation is sure to win only when it alone is
\* ready.
C15_SelectBranches ==
    [][/\ \A i \in Slots :
            /\ (inst[i].pc = "idle" /\ inst'[i].pc # "idle")
                  => \/ inst[i].fired /\ inst'[i].pc = "loop"
                     \/ /\ CtxDone(i) /\ inst'[i].pc = "send"
                        /\ inst'[i].err = "terminated"
            /\ (inst[i].pc = "pace" /\ inst'[i].pc # "pace")
                  => \/ inst[i].fired /\ inst'[i].pc = "nal"
                     \/ /\ CtxDone(i) /\ inst'[i].pc = "send"
                        /\ inst'[i].err = "terminated"
       /\ (supPc = "pause" /\ supPc' # "pause")
             => \/ pauseFired /\ supPc' = "top"
                \/ cancelled /\ supPc' = "exit"
       /\ (supPc = "select" /\ supPc' # "select")
             => \/ ResultReady(cur) /\ supPc' = "pause"
                \/ cancelled /\ supPc' = "closing" /\ inst'[cur].closed]_vars

\* an idle wait with both its tick and the cancellation ready
C15_Witness ==
    \E i \in Slots : inst[i].pc = "idle" /\ inst[i].fired /\ CtxDone(i)

\* C16: the timing reference is established at most once per attempt: no
\* step establishes it when the attempt has established one before.
C16_OneReferencePerAttempt ==
    [][\A i \in Slots :
         (~inst[i].videoInitialized /\ inst'[i].videoInitialized)
            => ~inst[i].refSet]_vars

\* C17: a video payload whose output is empty after the classification of
\* its NAL units has caused no pacing wait.
C17_NoPacingForEmptyOutput ==
    \A i \in Slots :
      (inst[i].pc = "enc" /\ inst[i].out = <<>>) => ~inst[i].waited

\* C17 as amended: a video payload whose output is empty causes no encode
\* call: it is left without an encoding error; the pacing wait comes before
\* the classification, with the timing reference in place, whatever the
\* output turns out to be.
C17_NoEncodeForEmptyOutput ==
    /\ [](\A i \in Slots :
            /\ inst[i].pc = "pace" => inst[i].out = <<>>
            /\ inst[i].waited
                  => inst[i].pc \in {"nal", "enc"} /\ inst[i].videoInitialized)
    /\ [][\A i \in Slots :
            (inst[i].pc = "enc" /\ inst[i].out = <<>> /\ inst'[i].pc # "enc")
               => inst'[i].pc = "data" /\ inst'[i].err = "none"]_vars

\* a payload held back by a pacing wait has been classified and its output
\* is empty
C17_Witness ==
    \E i \in Slots :
      inst[i].pc = "enc" /\ inst[i].out = <<>> /\ inst[i].waited

\* C18: queueFill runs only when the queue holds at most one entry, and not
\* twice without a dequeued segment or an expired idle wait in between; on an
\* empty queue the loop goes to the idle wait, and from there back to the
\* refill only when the wait has expired; the top of the loop is reached
\* again only from the idle wait or from the end of segmentProcess.
C18_RefillPolicy ==
    [][\A i \in Slots :
         LET r == inst[i]  r2 == inst'[i] IN
         /\ (r.pc = "loop" /\ r2.pc # "loop")
               => IF Len(r.queue) > 1
                  THEN r2.pc = "check" /\ r2.queue = r.queue /\ ~r2.polled
                  ELSE ~r.polled /\ (r2.pc = "check" => r2.polled)
         /\ (r.pc = "check" /\ r2.pc # "check")
               => IF r.queue = <<>> THEN r2.pc = "idle" /\ r2.queue = <<>>
                  ELSE r2.pc = "seg"
         /\ (r.pc = "idle" /\ r2.pc = "loop") => r.fired
         /\ (r2.pc = "loop" /\ r.pc \notin {"loop", "none", "dead"})
               => r.pc \in {"idle", "pmt", "data"}]_vars

\* the refill has been left out with two entries in the queue
C18_Witness ==
    \E i \in Slots :
      inst[i].pc = "check" /\ ~inst[i].polled /\ Len(inst[i].queue) > 1

\* C19: the PMT search runs at most once per attempt: a new attempt starts
\* with the search pending and no video PID; a segment that ends before a PMT
\* is skipped without error and leaves the search pending; once a PMT has
\* been handled the flag and the video PID stay as they are for the rest of
\* the attempt and every later segment goes straight to its payloads.
C19_PMTOnce ==
    /\ [](\A i \in Slots :
            /\ inst[i].pc = "pmt"
                  => ~inst[i].pmtDownloaded /\ inst[i].videoPID = 0
            /\ inst[i].videoPID # 0 => inst[i].pmtDownloaded)
    /\ [][\A i \in Slots :
            LET r == inst[i]  r2 == inst'[i] IN
            /\ (r.pmtDownloaded /\ r2.pc \notin {"none", "dead"})
                  => /\ r2.pmtDownloaded
                     /\ r2.videoPID = r.videoPID
                     /\ r2.pc # "pmt"
            /\ (r.pc = "seg" /\ r2.pc \notin {"seg", "send"})
                  => r2.pc = IF r.pmtDownloaded THEN "data" ELSE "pmt"
            /\ (r.pc = "pmt" /\ r2.pc = "loop")
                  => ~r2.pmtDownloaded /\ r2.videoPID = 0 /\ r2.err = "none"
            /\ (r.pc \in {"none", "dead"} /\ r2.pc = "loop")
                  => ~r2.pmtDownloaded /\ r2.videoPID = 0]_vars

\* a later segment of an attempt that has bound the video PID is at its
\* first payload, the PMT search left out
C19_Witness ==
    \E i \in Slots :
      /\ inst[i].pc = "data"
      /\ inst[i].nread = 0
      /\ inst[i].pmtDownloaded
      /\ inst[i].videoPID = 1

\* C20: over all attempts the router sees successful become-ready calls and
\* not-ready calls alternate, a become-ready first: a stream is obtained only
\* while the router does not hold the source as ready, the not-ready call is
\* made only while it does, and it holds it as ready only for the attempt
\* the supervisor is waiting for.
C20_Alternation ==
    /\ [](sourceReady
            => /\ supPc \in {"select", "closing"}
               /\ Running(cur)
               /\ inst[cur].readyOK = inst[cur].notReadyCalls + 1)
    /\ [][\A i \in Slots :
            LET r == inst[i]  r2 == inst'[i] IN
            /\ r2.readyOK > r.readyOK => ~sourceReady /\ sourceReady'
            /\ r2.notReadyCalls > r.notReadyCalls
                  => sourceReady /\ ~sourceReady']_vars

\* a second or later attempt has made the source ready
C20_Witness ==
    /\ sourceReady
    /\ cur # 0
    /\ epoch = 0
    /\ inst[cur].readyOK = 1

====
